---- MODULE Spec2Model ----
(***************************************************************************)
(* Model of steam_randomiser (src/src/main.rs): install detection, library *)
(* discovery, manifest parsing, blacklist filtering and the launch.         *)
(*                                                                         *)
(* Strings are sequences of one-character strings, so that starts_with,    *)
(* ends_with, contains, split, split_whitespace, lines, replace and byte    *)
(* slicing are computed character by character as the code does.            *)
(***************************************************************************)
EXTENDS Integers, Sequences, FiniteSets, TLC

VARIABLES
    pc,            \* position of main: "start", "detected", "registry", "scan_default",
                   \* "scan_others", "run", "done", "panicked"; "idle" when main is
                   \* not running (function specifications)
    env,           \* the host: platform, tools, registry, home, filesystem, options
    steam_type,    \* result of detect_steam()
    path,          \* main's `path` (default manifest directory)
    install_dirs,  \* result of get_other_install_dirs()
    todo,          \* index of the next element of install_dirs to scan
    games,         \* main's `games`
    trace,         \* external calls made so far, in order
    stderr,        \* messages written with eprintln!
    chosen,        \* the (game, id) picked by games.choose()
    scans,         \* history: the result of every get_games_from_manifest_in_path call
    stdout,        \* messages written with println!
    launched,      \* commands of run() whose Command::spawn succeeded
    panic_at,      \* history: the function whose panic ended the run, "" if none
    arg,           \* input of the function under test (function specifications)
    res            \* its result

vars == <<pc, env, steam_type, path, install_dirs, todo, games, trace, stderr,
          chosen, scans, stdout, launched, panic_at, arg, res>>

---------------------------------------------------------------------------
(* Characters with a role in the code. *)
TAB == "\t"
NL == "\n"
CR == "\r"
SP == " "
QUOTE == "\""

Whitespace == {SP, TAB, NL, CR}

(* Literals of the program. *)
S_Redist == <<"S","t","e","a","m","w","o","r","k","s"," ","C","o","m","m","o","n"," ","R","e","d","i","s","t","r","i","b","u","t","a","b","l","e","s">>
S_SteamVR == <<"S","t","e","a","m","V","R">>
S_ProtonExp == <<"P","r","o","t","o","n"," ","E","x","p","e","r","i","m","e","n","t","a","l">>
S_Soundtrack == <<"S","o","u","n","d","t","r","a","c","k">>
S_Proton == <<"P","r","o","t","o","n">>
S_Runtime == <<"S","t","e","a","m"," ","L","i","n","u","x"," ","R","u","n","t","i","m","e">>
S_name == <<"n","a","m","e">>
S_appid == <<"a","p","p","i","d">>
S_path == <<"p","a","t","h">>
S_rungame == <<"s","t","e","a","m",":","/","/","r","u","n","g","a","m","e","i","d","/">>
S_appmanifest == <<"a","p","p","m","a","n","i","f","e","s","t">>
S_libraryfolders == <<"l","i","b","r","a","r","y","f","o","l","d","e","r","s",".","v","d","f">>

MANIFEST_DIR == <<"s","t","e","a","m","a","p","p","s","/">>
FLATPAK_APPLICATIONS_PATH == <<".","v","a","r","/","a","p","p","/","c","o","m",".","v","a","l","v","e","s","o","f","t","w","a","r","e",".","S","t","e","a","m","/","d","a","t","a","/","S","t","e","a","m">>
VANILLA_APPLICATIONS_PATHS == << <<".","l","o","c","a","l","/","s","h","a","r","e","/","s","t","e","a","m">>,
                                 <<".","s","t","e","a","m","/","s","t","e","a","m">> >>
VANILLA_APPLICATIONS_PATH_WINDOWS == <<"C",":","\\","P","r","o","g","r","a","m"," ","F","i","l","e","s"," ","(","x","8","6",")","\\","S","t","e","a","m">>
VANILLA_APPLICATIONS_PATH_MACOS == <<"L","i","b","r","a","r","y","/","A","p","p","l","i","c","a","t","i","o","n"," ","S","u","p","p","o","r","t","/","S","t","e","a","m">>

---------------------------------------------------------------------------
(* str helpers *)

(* s[from..to) in Rust's notation, 0-based, for 0 <= from <= to <= len. *)
Slice(s, from, to) == SubSeq(s, from + 1, to)

StartsWith(s, p) == Len(s) >= Len(p) /\ Slice(s, 0, Len(p)) = p

EndsWith(s, p) == Len(s) >= Len(p) /\ Slice(s, Len(s) - Len(p), Len(s)) = p

Contains(s, p) == \E k \in 0..(Len(s) - Len(p)) : Slice(s, k, k + Len(p)) = p

Min(S) == CHOOSE x \in S : \A y \in S : x <= y

(* str::split(c): the pieces between occurrences of c, empty pieces kept. *)
RECURSIVE Split(_, _)
Split(s, c) ==
    LET at == {i \in 1..Len(s) : s[i] = c}
    IN  IF at = {}
        THEN <<s>>
        ELSE <<Slice(s, 0, Min(at) - 1)>> \o Split(Slice(s, Min(at), Len(s)), c)

(* Iterator::filter(|s| !s.is_empty()) *)
NonEmpty(pieces) == SelectSeq(pieces, LAMBDA p : Len(p) > 0)

(* str::split_whitespace(): maximal runs of non-whitespace characters. *)
RECURSIVE SplitWhitespace(_)
SplitWhitespace(s) ==
    LET word == {i \in 1..Len(s) : s[i] \notin Whitespace}
    IN  IF word = {}
        THEN <<>>
        ELSE LET b == Min(word)
                 gaps == {i \in b..Len(s) : s[i] \in Whitespace}
                 e == IF gaps = {} THEN Len(s) ELSE Min(gaps) - 1
             IN  <<Slice(s, b - 1, e)>> \o SplitWhitespace(Slice(s, e, Len(s)))

(* str::lines(): split at "\n", no final empty line, one trailing "\r" of each
   line removed. *)
StripCR(l) == IF Len(l) > 0 /\ l[Len(l)] = CR THEN Slice(l, 0, Len(l) - 1) ELSE l

RECURSIVE StripAll(_)
StripAll(ls) == IF Len(ls) = 0 THEN <<>> ELSE <<StripCR(Head(ls))>> \o StripAll(Tail(ls))

Lines(text) ==
    LET pieces == Split(text, NL)
        kept == IF Len(pieces[Len(pieces)]) = 0
                THEN SubSeq(pieces, 1, Len(pieces) - 1)
                ELSE pieces
    IN  StripAll(kept)

(* str::replace(c, "") *)
RemoveChar(s, c) == SelectSeq(s, LAMBDA x : x # c)

---------------------------------------------------------------------------
(* str::parse::<f32>(), classified as "err", "zero" or "nonzero" (the code only
   compares the value with 0.0).  Grammar of core::num::dec2flt for literals without an
   exponent: an optional sign, then inf / infinity / nan in any case, or digits with at
   most one point and at least one digit. *)
Digits == {"0", "1", "2", "3", "4", "5", "6", "7", "8", "9"}

LowerMap == [I |-> "i", N |-> "n", F |-> "f", T |-> "t", Y |-> "y", A |-> "a"]

RECURSIVE Lower(_)
Lower(s) ==
    IF Len(s) = 0 THEN <<>>
    ELSE <<IF Head(s) \in DOMAIN LowerMap THEN LowerMap[Head(s)] ELSE Head(s)>>
         \o Lower(Tail(s))

ParseF32(tok) ==
    LET body == IF Len(tok) > 0 /\ tok[1] \in {"+", "-"} THEN Slice(tok, 1, Len(tok)) ELSE tok
        points == {i \in 1..Len(body) : body[i] = "."}
        digits == {i \in 1..Len(body) : body[i] \in Digits}
    IN  IF Lower(body) \in {<<"i","n","f">>, <<"n","a","n">>,
                            <<"i","n","f","i","n","i","t","y">>}
        THEN "nonzero"
        ELSE IF /\ digits # {}
                /\ Cardinality(points) <= 1
                /\ digits \cup points = 1..Len(body)
             THEN IF \A i \in digits : body[i] = "0" THEN "zero" ELSE "nonzero"
             ELSE "err"

---------------------------------------------------------------------------
(* fn generate_steam_rungame *)
generate_steam_rungame(id) == S_rungame \o id

(* is_proton without the comparison with 0.0: any version token that parses
   makes the name a Proton runtime. *)
is_proton_any_number(app_name) ==
    /\ StartsWith(app_name, S_Proton)
    /\ LET number == Split(app_name, SP)
       IN  /\ Len(number) > 1
           /\ ParseF32(number[2]) # "err"

(* fn is_proton *)
is_proton(app_name) ==
    /\ StartsWith(app_name, S_Proton)
    /\ LET number == Split(app_name, SP)
       IN  /\ Len(number) > 1
           /\ ParseF32(number[2]) = "nonzero"

(* fn is_blacklisted *)
steam_libs == {S_Redist, S_SteamVR, S_ProtonExp}

is_blacklisted(app_name) ==
    \/ app_name \in steam_libs
    \/ EndsWith(app_name, S_Soundtrack)
    \/ is_proton(app_name)
    \/ StartsWith(app_name, S_Runtime)

---------------------------------------------------------------------------
(* Paths.  PathBuf::push(p): an absolute p replaces the path; otherwise p is appended,
   after a separator unless the path is empty or already ends with one.  Only
   drive-letter and root-anchored absolute paths are distinguished. *)
IsSeparator(platform, c) == c = "/" \/ (platform = "windows" /\ c = "\\")

IsAbsolute(platform, p) ==
    IF platform = "windows"
    THEN Len(p) >= 3 /\ p[2] = ":" /\ IsSeparator(platform, p[3])
    ELSE Len(p) >= 1 /\ p[1] = "/"

Push(platform, base, p) ==
    IF IsAbsolute(platform, p) \/ Len(base) = 0
    THEN p
    ELSE IF IsSeparator(platform, base[Len(base)])
         THEN base \o p
         ELSE base \o <<(IF platform = "windows" THEN "\\" ELSE "/")>> \o p

(* External calls are recorded as <<kind, argument>>. *)
Call(kind, what) == <<kind, what>>

---------------------------------------------------------------------------
(* fn get_other_install_dirs: the loop over the lines of libraryfolders.vdf.
   Result: ok = FALSE when an index or a slice panics. *)
RECURSIVE ResolveLines(_, _)
ResolveLines(lines, libs) ==
    IF Len(lines) = 0
    THEN [ok |-> TRUE, val |-> libs]
    ELSE LET line == Head(lines)
             splitted == SplitWhitespace(line)
         IN  IF ~Contains(line, S_path)
             THEN ResolveLines(Tail(lines), libs)
             ELSE IF Len(splitted) < 2
                  THEN [ok |-> FALSE, val |-> libs]   \* splitted[1] out of bounds
                  ELSE IF Len(splitted[2]) < 2
                       THEN [ok |-> FALSE, val |-> libs]   \* slice 1..0
                       ELSE ResolveLines(Tail(lines),
                                Append(libs, Slice(splitted[2], 1, Len(splitted[2]) - 1)))

(* fn get_other_install_dirs(path), reading from the filesystem fs.
   ok = FALSE: contents.unwrap() or the loop panicked. *)
get_other_install_dirs(platform, fs, dir) ==
    LET file == Push(platform, dir, S_libraryfolders)
        calls == <<Call("read_to_string", file)>>
    IN  IF file \notin DOMAIN fs.files
        THEN [ok |-> FALSE, val |-> <<>>, calls |-> calls]
        ELSE LET r == ResolveLines(Lines(fs.files[file]), <<>>)
             IN  [ok |-> r.ok, val |-> r.val, calls |-> calls]

---------------------------------------------------------------------------
(* The field loop keeping the first occurrence of each field instead of the last. *)
RECURSIVE ParseFields_first_wins(_, _, _)
ParseFields_first_wins(lines, game, id) ==
    IF Len(lines) = 0
    THEN [ok |-> TRUE, game |-> game, id |-> id]
    ELSE LET line == NonEmpty(Split(Head(lines), TAB))
         IN  IF Len(line) = 0
             THEN [ok |-> FALSE, game |-> game, id |-> id]
             ELSE LET isName == Contains(line[1], S_name)
                      isId == Contains(line[1], S_appid)
                  IN  IF (isName \/ isId) /\ Len(line) < 2
                      THEN [ok |-> FALSE, game |-> game, id |-> id]
                      ELSE ParseFields_first_wins(Tail(lines),
                               IF isName /\ Len(game) = 0
                               THEN RemoveChar(line[2], QUOTE) ELSE game,
                               IF isId /\ Len(id) = 0
                               THEN RemoveChar(line[2], QUOTE) ELSE id)

(* fn get_games_from_manifest_in_path: the field loop over one manifest's lines
   (lines 141-156).  ok = FALSE when line[0] or line[1] is out of bounds. *)
RECURSIVE ParseFields(_, _, _)
ParseFields(lines, game, id) ==
    IF Len(lines) = 0
    THEN [ok |-> TRUE, game |-> game, id |-> id]
    ELSE LET line == NonEmpty(Split(Head(lines), TAB))
         IN  IF Len(line) = 0
             THEN [ok |-> FALSE, game |-> game, id |-> id]        \* line[0]
             ELSE LET isName == Contains(line[1], S_name)
                      isId == Contains(line[1], S_appid)
                  IN  IF (isName \/ isId) /\ Len(line) < 2
                      THEN [ok |-> FALSE, game |-> game, id |-> id]   \* line[1]
                      ELSE ParseFields(Tail(lines),
                               IF isName THEN RemoveChar(line[2], QUOTE) ELSE game,
                               IF isId THEN RemoveChar(line[2], QUOTE) ELSE id)

(* The loop skipping a manifest of fewer than three lines and going on with the
   next file, instead of returning. *)
RECURSIVE ScanFiles_skip_and_continue(_, _, _, _, _)
ScanFiles_skip_and_continue(platform, fs, files, games_, calls) ==
    IF Len(files) = 0
    THEN [status |-> "ok", games |-> games_, calls |-> calls]
    ELSE LET file_path == Head(files)
             calls2 == Append(calls, Call("read_to_string", file_path))
         IN  IF file_path \notin DOMAIN fs.files
             THEN [status |-> "panic", games |-> games_, calls |-> calls2]
             ELSE LET all == Lines(fs.files[file_path])
                      lines == SubSeq(all, 3, Len(all))
                  IN  IF Len(lines) = 0
                      THEN ScanFiles_skip_and_continue(platform, fs, Tail(files), games_,
                                                       calls2)
                      ELSE LET r == ParseFields(SubSeq(lines, 1, Len(lines) - 1), <<>>, <<>>)
                           IN  IF ~r.ok
                               THEN [status |-> "panic", games |-> games_, calls |-> calls2]
                               ELSE ScanFiles_skip_and_continue(platform, fs, Tail(files),
                                        IF is_blacklisted(r.game)
                                        THEN games_
                                        ELSE Append(games_, <<r.game, r.id>>),
                                        calls2)

(* The loop over the manifest files of one directory (lines 127-160).
   status: "ok" (loop ran to its end), "abandoned" (return at line 138),
   "panic" (an unwrap or an index failed). *)
RECURSIVE ScanFiles(_, _, _, _, _)
ScanFiles(platform, fs, files, games_, calls) ==
    IF Len(files) = 0
    THEN [status |-> "ok", games |-> games_, calls |-> calls]
    ELSE LET file_path == Head(files)
             calls2 == Append(calls, Call("read_to_string", file_path))
         IN  IF file_path \notin DOMAIN fs.files
             THEN [status |-> "panic", games |-> games_, calls |-> calls2]
             ELSE LET all == Lines(fs.files[file_path])
                      lines == SubSeq(all, 3, Len(all))
                  IN  IF Len(lines) = 0
                      THEN [status |-> "abandoned", games |-> games_, calls |-> calls2]
                      ELSE LET r == ParseFields(SubSeq(lines, 1, Len(lines) - 1), <<>>, <<>>)
                           IN  IF ~r.ok
                               THEN [status |-> "panic", games |-> games_, calls |-> calls2]
                               ELSE ScanFiles(platform, fs, Tail(files),
                                        IF is_blacklisted(r.game)
                                        THEN games_
                                        ELSE Append(games_, <<r.game, r.id>>),
                                        calls2)

(* get_games_from_manifest_in_path with read_dir(path).unwrap() in place of the
   match: an unlistable directory panics. *)
get_games_from_manifest_in_path_unwrap(platform, fs, dir) ==
    LET calls == <<Call("read_dir", dir)>>
    IN  IF dir \notin DOMAIN fs.dirs
        THEN [status |-> "panic", games |-> <<>>, calls |-> calls]
        ELSE LET names == SelectSeq(fs.dirs[dir], LAMBDA n : StartsWith(n, S_appmanifest))
                 manifest_files == [i \in 1..Len(names) |-> Push(platform, dir, names[i])]
             IN  ScanFiles(platform, fs, manifest_files, <<>>, calls)

(* fn get_games_from_manifest_in_path(path).  fs.dirs maps a listable directory to
   its entries' file names in the order read_dir yields them; every entry is
   readable as an entry and has a UTF-8 name. *)
get_games_from_manifest_in_path(platform, fs, dir) ==
    LET calls == <<Call("read_dir", dir)>>
    IN  IF dir \notin DOMAIN fs.dirs
        THEN [status |-> "ok", games |-> <<>>, calls |-> calls]
        ELSE LET names == SelectSeq(fs.dirs[dir], LAMBDA n : StartsWith(n, S_appmanifest))
                 manifest_files == [i \in 1..Len(names) |-> Push(platform, dir, names[i])]
             IN  ScanFiles(platform, fs, manifest_files, <<>>, calls)

---------------------------------------------------------------------------
(* str::parse::<u32>(): an optional "+", then one or more digits, value at most
   2^32 - 1 = 42949 67295.  The code only compares the value with 0, so the result
   is "err", "zero" or "positive".  A ten-digit value is compared in two halves. *)
DigitValue == [c \in Digits |-> CHOOSE n \in 0..9 : ToString(n) = c]

RECURSIVE DecimalValue(_, _)
DecimalValue(s, acc) ==
    IF Len(s) = 0 THEN acc ELSE DecimalValue(Tail(s), acc * 10 + DigitValue[Head(s)])

RECURSIVE StripZeros(_)
StripZeros(s) == IF Len(s) > 0 /\ Head(s) = "0" THEN StripZeros(Tail(s)) ELSE s

FitsU32(sig) ==
    \/ Len(sig) < 10
    \/ /\ Len(sig) = 10
       /\ LET hi == DecimalValue(SubSeq(sig, 1, 5), 0)
              lo == DecimalValue(SubSeq(sig, 6, 10), 0)
          IN  hi < 42949 \/ (hi = 42949 /\ lo <= 67295)

ParseU32(s) ==
    LET body == IF Len(s) > 0 /\ s[1] = "+" THEN Tail(s) ELSE s
        sig == StripZeros(body)
    IN  IF Len(body) = 0 \/ \E i \in 1..Len(body) : body[i] \notin Digits
        THEN "err"
        ELSE IF ~FitsU32(sig) THEN "err"
        ELSE IF Len(sig) = 0 THEN "zero" ELSE "positive"

(* enum SteamKind *)
Vanilla == [kind |-> "Vanilla", path |-> <<>>]
AltPath(p) == [kind |-> "AltPath", path |-> p]
Flatpak == [kind |-> "Flatpak", path |-> <<>>]
NotFound == [kind |-> "NotFound", path |-> <<>>]

S_steam == <<"s","t","e","a","m">>
S_steam_exe == <<"\\","s","t","e","a","m",".","e","x","e">>

(* fn detect_steam, target_os = "linux".  ok = FALSE: one of the unwraps, or
   Vec::remove on an empty output, panicked. *)
detect_steam_linux(e) ==
    LET has_steam_vanilla == e.which_steam
        c1 == <<Call("which", S_steam), Call("spawn", <<"f","l","a","t","p","a","k"," ","l","i","s","t">>)>>
        c2 == Append(c1, Call("spawn", <<"g","r","e","p"," ","-","c"," ","S","t","e","a","m">>))
        bad(calls) == [ok |-> FALSE, val |-> NotFound, calls |-> calls, errs |-> <<>>]
    IN  IF ~e.flatpak_spawn THEN bad(c1)
        ELSE IF ~e.grep_spawn THEN bad(c2)
        ELSE IF Len(e.grep_out) = 0 THEN bad(c2)
        ELSE LET has_flatpak_steam == ParseU32(Slice(e.grep_out, 0, Len(e.grep_out) - 1))
             IN  IF has_flatpak_steam = "err" THEN bad(c2)
                 ELSE [ok |-> TRUE,
                       val |-> IF has_steam_vanilla THEN Vanilla
                               ELSE IF has_flatpak_steam = "positive" THEN Flatpak
                               ELSE NotFound,
                       calls |-> c2, errs |-> <<>>]

(* fn detect_steam, target_os = "windows", with get_steam_exe_path_from_reg. *)
detect_steam_windows(e) ==
    LET c1 == <<Call("which", VANILLA_APPLICATIONS_PATH_WINDOWS \o S_steam_exe)>>
        c2 == Append(c1, Call("registry", <<"I","n","s","t","a","l","l","P","a","t","h">>))
    IN  IF e.which_steam
        THEN [ok |-> TRUE, val |-> Vanilla, calls |-> c1, errs |-> <<>>]
        ELSE IF ~e.reg.ok
             THEN [ok |-> TRUE, val |-> NotFound, calls |-> c2,
                   errs |-> <<"Couldn't find steam in registry due to error">>]
             ELSE LET c3 == Append(c2, Call("which", e.reg.val \o S_steam_exe))
                  IN  IF e.reg_exe
                      THEN [ok |-> TRUE, val |-> AltPath(e.reg.val), calls |-> c3,
                            errs |-> <<>>]
                      ELSE [ok |-> TRUE, val |-> NotFound, calls |-> c3,
                            errs |-> <<"steam.exe was not in install folder",
                                       "expected path according to registry">>]

(* fn detect_steam, target_os = "macos" *)
detect_steam_macos(e) ==
    [ok |-> TRUE, val |-> IF e.which_steam THEN Vanilla ELSE NotFound,
     calls |-> <<Call("which", S_steam)>>, errs |-> <<>>]

detect_steam(e) ==
    CASE e.platform = "linux" -> detect_steam_linux(e)
      [] e.platform = "windows" -> detect_steam_windows(e)
      [] e.platform = "macos" -> detect_steam_macos(e)

(* main, lines 326-350: the default manifest directory.  ok = FALSE:
   home_dir().unwrap() or find(..).unwrap() panicked. *)
default_path(e, kind) ==
    LET home == e.home.val
        cand(i) == Push(e.platform, home, VANILLA_APPLICATIONS_PATHS[i])
        found == {i \in 1..Len(VANILLA_APPLICATIONS_PATHS) : cand(i) \in e.fs.isdir}
        first == CHOOSE i \in found : \A j \in found : i <= j
        probes == [i \in 1..(IF found = {} THEN Len(VANILLA_APPLICATIONS_PATHS) ELSE first)
                      |-> Call("exists", cand(i))]
        good(root, calls) == [ok |-> TRUE, calls |-> <<Call("home_dir", <<>>)>> \o calls,
                              val |-> Push(e.platform, root, MANIFEST_DIR)]
        bad(calls) == [ok |-> FALSE, calls |-> <<Call("home_dir", <<>>)>> \o calls,
                       val |-> <<>>]
    IN  IF ~e.home.ok THEN bad(<<>>)
        ELSE CASE kind.kind = "Flatpak" ->
                      good(Push(e.platform, home, FLATPAK_APPLICATIONS_PATH), <<>>)
               [] kind.kind = "Vanilla" /\ e.platform = "linux" ->
                      IF found = {} THEN bad(probes) ELSE good(cand(first), probes)
               [] kind.kind = "Vanilla" /\ e.platform = "windows" ->
                      good(Push(e.platform, home, VANILLA_APPLICATIONS_PATH_WINDOWS), <<>>)
               [] kind.kind = "Vanilla" /\ e.platform = "macos" ->
                      good(Push(e.platform, home, VANILLA_APPLICATIONS_PATH_MACOS), <<>>)
               [] kind.kind = "AltPath" -> good(kind.path, <<>>)
               [] OTHER -> good(home, <<>>)

(* fn run: the program and the URI handed to Command::spawn. *)
run(e, kind, id) ==
    [program |-> CASE kind.kind = "Flatpak" ->
                          <<"f","l","a","t","p","a","k">>
                   [] kind.kind = "AltPath" ->
                          Push(e.platform, kind.path, Tail(S_steam_exe))
                   [] kind.kind = "Vanilla" /\ e.platform = "windows" ->
                          VANILLA_APPLICATIONS_PATH_WINDOWS \o S_steam_exe
                   [] OTHER -> S_steam,
     uri |-> generate_steam_rungame(id)]

---------------------------------------------------------------------------
(* main *)

Unset == [kind |-> "Unset", path |-> <<>>]
NoGame == <<>>
S_NotFoundMessage == "Couldn't find Steam. Please make sure it is installed."

(* line 319: let steam_type = detect_steam(); *)
Detect ==
    /\ pc = "start"
    /\ \E r \in {detect_steam(env)} :
           /\ trace' = trace \o r.calls
           /\ stderr' = stderr \o r.errs
           /\ steam_type' = IF r.ok THEN r.val ELSE steam_type
           /\ pc' = IF r.ok THEN "detected" ELSE "panicked"
           /\ panic_at' = IF r.ok THEN panic_at ELSE "detect_steam"
    /\ UNCHANGED <<env, path, install_dirs, todo, games, chosen, scans, stdout,
                   launched, arg, res>>

(* The NotFound branch without its return: main goes on with the home directory. *)
ExitNotFound_no_return ==
    /\ pc = "detected"
    /\ steam_type = NotFound
    /\ stderr' = Append(stderr, S_NotFoundMessage)
    /\ path' = Push(env.platform, env.home.val, MANIFEST_DIR)
    /\ pc' = "registry"
    /\ UNCHANGED <<env, steam_type, install_dirs, todo, games, trace, chosen,
                   scans, stdout, launched, panic_at, arg, res>>

(* lines 321-324: steam_type == SteamKind::NotFound *)
ExitNotFound ==
    /\ pc = "detected"
    /\ steam_type = NotFound
    /\ stderr' = Append(stderr, S_NotFoundMessage)
    /\ pc' = "done"
    /\ UNCHANGED <<env, steam_type, path, install_dirs, todo, games, trace, chosen,
                   scans, stdout, launched, panic_at, arg, res>>

(* lines 326-350: path *)
ResolveRoot ==
    /\ pc = "detected"
    /\ steam_type # NotFound
    /\ \E r \in {default_path(env, steam_type)} :
           /\ trace' = trace \o r.calls
           /\ path' = r.val
           /\ pc' = IF r.ok THEN "registry" ELSE "panicked"
           /\ panic_at' = IF r.ok THEN panic_at ELSE "default_path"
    /\ UNCHANGED <<env, steam_type, install_dirs, todo, games, stderr, chosen, scans,
                   stdout, launched, arg, res>>

(* line 352: let install_dirs = get_other_install_dirs(&path); *)
ReadRegistry ==
    /\ pc = "registry"
    /\ \E r \in {get_other_install_dirs(env.platform, env.fs, path)} :
           /\ trace' = trace \o r.calls
           /\ install_dirs' = IF r.ok THEN r.val ELSE install_dirs
           /\ pc' = IF r.ok THEN "scan_default" ELSE "panicked"
           /\ panic_at' = IF r.ok THEN panic_at ELSE "get_other_install_dirs"
    /\ UNCHANGED <<env, steam_type, path, todo, games, stderr, chosen, scans, stdout,
                   launched, arg, res>>

ScanRecord(dir, r) ==
    [dir |-> dir, status |-> r.status, games |-> r.games, calls |-> r.calls]

(* line 354: let mut games = get_games_from_manifest_in_path(&path); *)
ScanDefault ==
    /\ pc = "scan_default"
    /\ \E r \in {get_games_from_manifest_in_path(env.platform, env.fs, path)} :
           /\ trace' = trace \o r.calls
           /\ scans' = Append(scans, ScanRecord(path, r))
           /\ games' = IF r.status = "panic" THEN games ELSE r.games
           /\ pc' = IF r.status = "panic" THEN "panicked" ELSE "scan_others"
           /\ panic_at' = IF r.status = "panic"
                          THEN "get_games_from_manifest_in_path" ELSE panic_at
    /\ UNCHANGED <<env, steam_type, path, install_dirs, todo, stderr, chosen, stdout,
                   launched, arg, res>>

(* lines 356-361: one iteration of the loop over install_dirs *)
ScanOther ==
    /\ pc = "scan_others"
    /\ todo <= Len(install_dirs)
    /\ \E dir \in {Push(env.platform, Push(env.platform, <<>>, install_dirs[todo]),
                        MANIFEST_DIR)} :
       \E r \in {get_games_from_manifest_in_path(env.platform, env.fs, dir)} :
           /\ trace' = trace \o r.calls
           /\ scans' = Append(scans, ScanRecord(dir, r))
           /\ games' = IF r.status = "panic" THEN games ELSE games \o r.games
           /\ pc' = IF r.status = "panic" THEN "panicked" ELSE "scan_others"
           /\ panic_at' = IF r.status = "panic"
                          THEN "get_games_from_manifest_in_path" ELSE panic_at
    /\ todo' = todo + 1
    /\ UNCHANGED <<env, steam_type, path, install_dirs, stderr, chosen, stdout,
                   launched, arg, res>>

(* lines 363-367: games.choose(..).unwrap() and the verbose message *)
Choose ==
    /\ pc = "scan_others"
    /\ todo > Len(install_dirs)
    /\ \/ /\ Len(games) = 0
          /\ pc' = "panicked"
          /\ panic_at' = "choose"
          /\ UNCHANGED <<chosen, stdout>>
       \/ \E i \in 1..Len(games) :
              /\ chosen' = games[i]
              /\ stdout' = IF env.verbose > 0
                           THEN Append(stdout, <<"Randomly launching", games[i][1]>>)
                           ELSE stdout
              /\ pc' = "run"
              /\ UNCHANGED panic_at
    /\ UNCHANGED <<env, steam_type, path, install_dirs, todo, games, trace, stderr,
                   scans, launched, arg, res>>

(* The launch without the dry-run test. *)
Launch_ignores_dry_run ==
    /\ pc = "run"
    /\ \E cmd \in {run(env, steam_type, chosen[2])} :
           /\ trace' = Append(trace, Call("launch", cmd.uri))
           /\ launched' = IF env.spawn_ok THEN Append(launched, cmd) ELSE launched
           /\ stdout' = IF env.spawn_ok /\ env.platform = "linux"
                        THEN Append(stdout, <<steam_type.kind, chosen[2]>>)
                        ELSE stdout
           /\ pc' = IF env.spawn_ok THEN "done" ELSE "panicked"
           /\ panic_at' = IF env.spawn_ok THEN panic_at ELSE "run"
    /\ UNCHANGED <<env, steam_type, path, install_dirs, todo, games, stderr, chosen,
                   scans, arg, res>>

(* lines 369-371: if !opts.dry_run { run(steam_type, id).unwrap(); } *)
Launch ==
    /\ pc = "run"
    /\ IF env.dry_run
       THEN /\ pc' = "done"
            /\ UNCHANGED <<trace, launched, stdout, panic_at>>
       ELSE \E cmd \in {run(env, steam_type, chosen[2])} :
                /\ trace' = Append(trace, Call("launch", cmd.uri))
                /\ launched' = IF env.spawn_ok THEN Append(launched, cmd) ELSE launched
                /\ stdout' = IF env.spawn_ok /\ env.platform = "linux"
                             THEN Append(stdout, <<steam_type.kind, chosen[2]>>)
                             ELSE stdout
                /\ pc' = IF env.spawn_ok THEN "done" ELSE "panicked"
                /\ panic_at' = IF env.spawn_ok THEN panic_at ELSE "run"
    /\ UNCHANGED <<env, steam_type, path, install_dirs, todo, games, stderr, chosen,
                   scans, arg, res>>

Next == Detect \/ ExitNotFound \/ ResolveRoot \/ ReadRegistry \/ ScanDefault
            \/ ScanOther \/ Choose \/ Launch

---------------------------------------------------------------------------
(* Hosts the program is run on.  Bounds of the model: *)
MaxFiles == 2      \* manifest files in the default library
MaxLibs == 2       \* path lines in libraryfolders.vdf

Quoted(s) == <<QUOTE>> \o s \o <<QUOTE>>

(* A field line as Steam writes it: <TAB>"key"<TAB><TAB>"value" *)
KV(key, val) == <<TAB>> \o Quoted(key) \o <<TAB, TAB>> \o Quoted(val)

RECURSIVE Text(_)
Text(lines) == IF Len(lines) = 0 THEN <<>> ELSE Head(lines) \o <<NL>> \o Text(Tail(lines))

RECURSIVE SeqsUpTo(_, _)
SeqsUpTo(S, n) ==
    IF n = 0 THEN {<<>>}
    ELSE LET shorter == SeqsUpTo(S, n - 1)
         IN  shorter \cup {Append(q, x) : q \in {t \in shorter : Len(t) = n - 1}, x \in S}

N_HalfLife2 == <<"H","a","l","f","-","L","i","f","e"," ","2">>
N_Proton8 == <<"P","r","o","t","o","n"," ","8",".","0">>
N_Foo == <<"F","o","o">>
N_Bar == <<"B","a","r">>

Manifest(name_, id_) ==
    Text(<<Quoted(<<"A","p","p","S","t","a","t","e">>), <<"{">>,
           KV(S_appid, id_), KV(S_name, name_), <<"}">>>>)

(* Manifest files of the model's libraries, by kind; "unreadable" is listed by
   read_dir but cannot be read. *)
ManifestText ==
    [hl2 |-> Manifest(N_HalfLife2, <<"2","2","0">>),
     proton8 |-> Manifest(N_Proton8, <<"0">>),
     foo |-> Manifest(N_Foo, <<"1","2","3">>),
     bar |-> Manifest(N_Bar, <<"7">>),
     short |-> Text(<<Quoted(<<"A","p","p","S","t","a","t","e">>), <<"{">>>>),
     empty |-> <<>>,
     blank |-> Text(<<Quoted(<<"A","p","p","S","t","a","t","e">>), <<"{">>, <<>>, <<"}">>>>)]

DefaultKinds == {"hl2", "proton8", "short", "blank", "unreadable"}

FileName(i) == S_appmanifest \o <<"_", ToString(i), ".", "a", "c", "f">>

(* Library roots a registry file may list: the default library itself ("self"),
   a second library with one game (m), a library whose second of three
   manifests is empty (n), a stale path (x). *)
Root_m == <<"/","m">>
Root_n == <<"/","n">>
Root_x == <<"/","x">>

RegistryLine(root) == <<TAB, TAB>> \o Quoted(S_path) \o <<TAB, TAB>> \o Quoted(root)

RegistryText(lines) ==
    Text(<<Quoted(<<"l","i","b","r","a","r","y","f","o","l","d","e","r","s">>), <<"{">>>>
         \o lines \o << <<"}">> >>)

(* The files of one library directory: [name |-> kind]. *)
DirFiles(platform, dir, kinds) ==
    [f \in {Push(platform, dir, FileName(i)) :
                i \in {j \in 1..Len(kinds) : kinds[j] # "unreadable"}}
        |-> LET i == CHOOSE j \in 1..Len(kinds) : Push(platform, dir, FileName(j)) = f
            IN  ManifestText[kinds[i]]]

LibDir(platform, root) == Push(platform, Push(platform, <<>>, root), MANIFEST_DIR)

(* The filesystem of a host whose default manifest directory is dir:
   lay.registry says whether libraryfolders.vdf is "missing", "malformed" (a path
   line without a value) or "present" with the roots lay.listed ("self" for the
   default library's own root); lay.files are the kinds of the default library's
   manifests in listing order. *)
RootOf(dir) == Slice(dir, 0, Len(dir) - Len(MANIFEST_DIR) - 1)

ListedRoot(dir, r) == IF r = <<"self">> THEN RootOf(dir) ELSE r

MakeFs(platform, isdir, dir, lay) ==
    LET regfile == Push(platform, dir, S_libraryfolders)
        regtext == IF lay.registry = "malformed"
                   THEN RegistryText(<< <<TAB, TAB>> \o Quoted(S_path) >>)
                   ELSE RegistryText([i \in 1..Len(lay.listed) |->
                                         RegistryLine(ListedRoot(dir, lay.listed[i]))])
        reg == IF lay.registry = "missing" THEN <<>> ELSE (regfile :> regtext)
        dm == LibDir(platform, Root_m)
        dn == LibDir(platform, Root_n)
    IN  [isdir |-> isdir,
         dirs |-> (dm :> <<FileName(1)>>)
                  @@ (dn :> <<FileName(1), FileName(2), FileName(3)>>)
                  @@ (dir :> ([i \in 1..Len(lay.files) |-> FileName(i)]
                              \o (IF lay.registry = "missing" THEN <<>>
                                  ELSE <<S_libraryfolders>>))),
         files |-> reg @@ DirFiles(platform, dir, lay.files)
                   @@ DirFiles(platform, dm, <<"foo">>)
                   @@ DirFiles(platform, dn, <<"bar", "empty", "foo">>)]

Layouts ==
    [registry : {"missing", "malformed"}, listed : {<<>>},
     files : SeqsUpTo(DefaultKinds, MaxFiles)]
    \cup [registry : {"present"},
          listed : SeqsUpTo({<<"self">>, Root_m, Root_n, Root_x}, MaxLibs),
          files : SeqsUpTo(DefaultKinds, MaxFiles)]

StandardLayout ==
    [registry |-> "present", listed |-> <<Root_m>>, files |-> <<"hl2", "proton8">>]

Home(platform) == IF platform = "windows" THEN <<"C",":","\\","u">> ELSE <<"/","h">>

RegistryInstallPath == <<"D",":","\\","S">>

(* What the detection consults on each platform. *)
Probe(which, fspawn, gspawn, gout, reg_, rexe) ==
    [which_steam |-> which, flatpak_spawn |-> fspawn, grep_spawn |-> gspawn,
     grep_out |-> gout, reg |-> reg_, reg_exe |-> rexe]

NoReg == [ok |-> FALSE, val |-> <<>>]

GrepOuts == {<<>>, <<"0", NL>>, <<"1", NL>>, <<"x", NL>>, <<NL>>}

Probes(platform) ==
    CASE platform = "linux" ->
             {Probe(w, FALSE, TRUE, <<"0", NL>>, NoReg, FALSE) : w \in BOOLEAN}
             \cup {Probe(w, TRUE, FALSE, <<"0", NL>>, NoReg, FALSE) : w \in BOOLEAN}
             \cup {Probe(w, TRUE, TRUE, g, NoReg, FALSE) : w \in BOOLEAN, g \in GrepOuts}
      [] platform = "windows" ->
             {Probe(TRUE, TRUE, TRUE, <<>>, NoReg, FALSE),
              Probe(FALSE, TRUE, TRUE, <<>>, NoReg, FALSE),
              Probe(FALSE, TRUE, TRUE, <<>>, [ok |-> TRUE, val |-> RegistryInstallPath], TRUE),
              Probe(FALSE, TRUE, TRUE, <<>>, [ok |-> TRUE, val |-> RegistryInstallPath], FALSE)}
      [] platform = "macos" ->
             {Probe(w, TRUE, TRUE, <<>>, NoReg, FALSE) : w \in BOOLEAN}

(* The host: probe results, home directory, the existing candidates among
   VANILLA_APPLICATIONS_PATHS (Linux), the library layout and the options. *)
MakeEnv(platform, probe, home_ok, cands, lay, opts) ==
    LET home == [ok |-> home_ok, val |-> Home(platform)]
        isdir == {Push(platform, home.val, VANILLA_APPLICATIONS_PATHS[i]) : i \in cands}
        e0 == [platform |-> platform, which_steam |-> probe.which_steam,
               flatpak_spawn |-> probe.flatpak_spawn, grep_spawn |-> probe.grep_spawn,
               grep_out |-> probe.grep_out, reg |-> probe.reg, reg_exe |-> probe.reg_exe,
               home |-> home, dry_run |-> opts.dry_run, verbose |-> opts.verbose,
               spawn_ok |-> opts.spawn_ok,
               fs |-> [isdir |-> isdir, dirs |-> <<>>, files |-> <<>>]]
        d == detect_steam(e0)
        p == default_path(e0, d.val)
    IN  IF d.ok /\ d.val # NotFound /\ p.ok
        THEN [e0 EXCEPT !.fs = MakeFs(platform, isdir, p.val, lay)]
        ELSE e0

Options == [dry_run : BOOLEAN, verbose : {0, 1}, spawn_ok : BOOLEAN]

StandardOptions == [dry_run |-> FALSE, verbose |-> 1, spawn_ok |-> TRUE]

Platforms == {"linux", "windows", "macos"}

(* Every probe outcome of every platform, with and without a home directory and
   with every set of existing candidate directories, on the standard layout. *)
DetectionHosts ==
    UNION {{MakeEnv(pf, pr, h, c, StandardLayout, StandardOptions) :
               pr \in Probes(pf), h \in BOOLEAN,
               c \in IF pf = "linux" THEN SUBSET (1..Len(VANILLA_APPLICATIONS_PATHS))
                     ELSE {{}}} :
           pf \in Platforms}

LinuxVanilla == Probe(TRUE, TRUE, TRUE, <<"0", NL>>, NoReg, FALSE)
LinuxFlatpak == Probe(FALSE, TRUE, TRUE, <<"1", NL>>, NoReg, FALSE)
WindowsAlt == Probe(FALSE, TRUE, TRUE, <<>>, [ok |-> TRUE, val |-> RegistryInstallPath], TRUE)
WindowsVanilla == Probe(TRUE, TRUE, TRUE, <<>>, NoReg, FALSE)
MacVanilla == Probe(TRUE, TRUE, TRUE, <<>>, NoReg, FALSE)

(* Every combination of options, on one host per install variant. *)
OptionHosts ==
    {MakeEnv(v[1], v[2], TRUE, {1, 2}, StandardLayout, o) :
        v \in {<<"linux", LinuxVanilla>>, <<"linux", LinuxFlatpak>>,
               <<"windows", WindowsAlt>>, <<"windows", WindowsVanilla>>,
               <<"macos", MacVanilla>>},
        o \in Options}

(* Every library layout, on a Linux and on a Windows host. *)
LibraryHosts ==
    {MakeEnv(v[1], v[2], TRUE, {2}, lay, StandardOptions) :
        v \in {<<"linux", LinuxVanilla>>, <<"windows", WindowsAlt>>},
        lay \in Layouts}

NoRes == [done |-> FALSE]
NoArg == [fn |-> "main"]

Init ==
    /\ env \in DetectionHosts \cup OptionHosts \cup LibraryHosts
    /\ pc = "start"
    /\ steam_type = Unset
    /\ path = <<>>
    /\ install_dirs = <<>>
    /\ todo = 1
    /\ games = <<>>
    /\ trace = <<>>
    /\ stderr = <<>>
    /\ chosen = NoGame
    /\ scans = <<>>
    /\ stdout = <<>>
    /\ launched = <<>>
    /\ panic_at = ""
    /\ arg = NoArg
    /\ res = NoRes

Spec == Init /\ [][Next]_vars

---------------------------------------------------------------------------
(* Function specifications: one function applied to every input of a bounded
   set, main not running. *)
MaxLines == 6        \* lines of a manifest text
MaxRegLines == 3     \* lines of a libraryfolders.vdf text
MaxNameTokens == 3   \* tokens of a game name

IdleInit ==
    /\ env = MakeEnv("macos", Probe(FALSE, TRUE, TRUE, <<>>, NoReg, FALSE), FALSE, {},
                     StandardLayout, StandardOptions)
    /\ pc = "idle"
    /\ steam_type = Unset
    /\ path = <<>>
    /\ install_dirs = <<>>
    /\ todo = 1
    /\ games = <<>>
    /\ trace = <<>>
    /\ stderr = <<>>
    /\ chosen = NoGame
    /\ scans = <<>>
    /\ stdout = <<>>
    /\ launched = <<>>
    /\ panic_at = ""
    /\ res = NoRes

mainVars == <<pc, env, steam_type, path, install_dirs, todo, games, trace, stderr,
              chosen, scans, stdout, launched, panic_at>>

(* A library directory holding the given files and nothing else. *)
TestDir == <<"/","t","/">> \o MANIFEST_DIR

OneFileFs(name_, text) ==
    [isdir |-> {}, dirs |-> (TestDir :> <<name_>>),
     files |-> (Push("linux", TestDir, name_) :> text)]

(* Manifest lines: the appid line and the name line, a second name line,
   a blank line, a lone brace, a name key without a value. *)
L_appid == Quoted(S_appid) \o <<TAB>> \o Quoted(<<"1","2","3">>)
L_name == Quoted(S_name) \o <<TAB>> \o Quoted(N_Foo)
L_name2 == KV(S_name, N_Bar)
L_blank == <<>>
L_brace == <<"}">>
L_lonely == <<TAB>> \o Quoted(S_name)

ManifestLines == {L_appid, L_name, L_name2, L_blank, L_brace, L_lonely}

ManifestInit ==
    /\ IdleInit
    /\ arg \in [fn : {"manifest"}, lines : SeqsUpTo(ManifestLines, MaxLines)]

(* get_games_from_manifest_in_path on a directory holding one manifest *)
ParseManifest ==
    /\ pc = "idle" /\ arg.fn = "manifest" /\ ~res.done
    /\ res' = [done |-> TRUE,
               out |-> get_games_from_manifest_in_path(
                           "linux", OneFileFs(FileName(1), Text(arg.lines)), TestDir)]
    /\ UNCHANGED <<mainVars, arg>>

SpecManifest == ManifestInit /\ [][ParseManifest]_vars

(* Registry lines: a tab-separated and a space-separated path line, a value
   holding a space, a path key without a value, a one-character value, a line
   without "path", a key that merely contains "path", "path" as third token. *)
R_tabs == RegistryLine(Root_m)
R_spaces == Quoted(S_path) \o <<SP, SP>> \o Quoted(<<"D",":","\\","G">>)
R_spaced == RegistryLine(<<"/","a"," ","b">>)
R_novalue == <<TAB, TAB>> \o Quoted(S_path)
R_onechar == S_path \o <<SP, QUOTE>>
R_label == <<TAB, TAB>> \o Quoted(<<"l","a","b","e","l">>) \o <<TAB, TAB>> \o Quoted(<<>>)
R_mypath == <<TAB>> \o Quoted(<<"m","y">> \o S_path) \o <<TAB>> \o Quoted(Root_n)
R_third == Quoted(<<"k">>) \o <<SP>> \o Quoted(<<"v">>) \o <<SP>> \o S_path

RegistryLines == {R_tabs, R_spaces, R_spaced, R_novalue, R_onechar, R_label, R_mypath,
                  R_third}

ResolverInit ==
    /\ IdleInit
    /\ arg \in [fn : {"resolver"}, lines : SeqsUpTo(RegistryLines, MaxRegLines)]

(* get_other_install_dirs on a directory holding the registry file *)
Resolve ==
    /\ pc = "idle" /\ arg.fn = "resolver" /\ ~res.done
    /\ res' = [done |-> TRUE,
               out |-> get_other_install_dirs(
                           "linux", OneFileFs(S_libraryfolders, Text(arg.lines)), TestDir)]
    /\ UNCHANGED <<mainVars, arg>>

SpecResolver == ResolverInit /\ [][Resolve]_vars

(* Game names: up to MaxNameTokens tokens joined by one or two spaces. *)
NameTokens == {S_Proton, <<"7",".","0">>, <<"0">>,
               <<"E","x","p","e","r","i","m","e","n","t","a","l">>, S_Soundtrack,
               <<"P","l","a","y","e","r">>, S_SteamVR, S_Runtime, S_Redist}

NameSeparators == {<<SP>>, <<SP, SP>>}

RECURSIVE NamesUpTo(_)
NamesUpTo(n) ==
    IF n = 1 THEN NameTokens
    ELSE NamesUpTo(n - 1)
         \cup {a \o sep \o t : a \in NamesUpTo(n - 1), sep \in NameSeparators,
                               t \in NameTokens}

NameId == <<"4","2">>

BlacklistInit ==
    /\ IdleInit
    /\ arg \in [fn : {"blacklist"}, name : NamesUpTo(MaxNameTokens)]

(* get_games_from_manifest_in_path on a directory holding one manifest of a
   game with the given name: the filter of lines 157-159 *)
FilterName ==
    /\ pc = "idle" /\ arg.fn = "blacklist" /\ ~res.done
    /\ res' = [done |-> TRUE,
               out |-> get_games_from_manifest_in_path(
                           "linux", OneFileFs(FileName(1), Manifest(arg.name, NameId)),
                           TestDir)]
    /\ UNCHANGED <<mainVars, arg>>

SpecBlacklist == BlacklistInit /\ [][FilterName]_vars

---------------------------------------------------------------------------
(* Properties of the manifest parser (SpecManifest). *)

Fragments(l) == NonEmpty(Split(l, TAB))

(* The lines the parser scans for fields: after the first two, before the last. *)
FieldLines(lines) == SubSeq(lines, 3, Len(lines) - 1)

KeyLine(l, key) == Len(Fragments(l)) >= 1 /\ Contains(Fragments(l)[1], key)

Malformed(l) ==
    \/ Len(Fragments(l)) = 0
    \/ Len(Fragments(l)) = 1 /\ (KeyLine(l, S_name) \/ KeyLine(l, S_appid))

(* line is a field line and no later field line has a key containing key *)
LastOfKey(fields, key, line) ==
    \E i \in 1..Len(fields) :
        fields[i] = line /\ \A j \in (i + 1)..Len(fields) : ~KeyLine(fields[j], key)

Parsed == res.done /\ arg.fn = "manifest"

FooRecord == << <<N_Foo, <<"1","2","3">>>> >>

(* C1, as claimed: every manifest text that holds the line "appid"<TAB>"123" and
   the line "name"<TAB>"Foo", at any line positions and whatever the other lines
   are, parses to the record name = "Foo", id = "123". *)
C1_AnyPosition ==
    (/\ Parsed
     /\ \E i \in 1..Len(arg.lines) : arg.lines[i] = L_appid
     /\ \E i \in 1..Len(arg.lines) : arg.lines[i] = L_name)
    => res.out.status = "ok" /\ res.out.games = FooRecord

(* C1, amended: when both lines are field lines (after the two skipped lines,
   before the last line) and each is the last field line whose first fragment
   contains "appid", respectively "name", the record is name = "Foo", id = "123",
   in either order of the two lines; the parse panics instead exactly when
   some field line has no fragment or only a fragment containing "name" or
   "appid". *)
C1_LastFieldLines ==
    (/\ Parsed
     /\ LastOfKey(FieldLines(arg.lines), S_appid, L_appid)
     /\ LastOfKey(FieldLines(arg.lines), S_name, L_name))
    => IF \E i \in 1..Len(FieldLines(arg.lines)) : Malformed(FieldLines(arg.lines)[i])
       THEN res.out.status = "panic"
       ELSE res.out.status = "ok" /\ res.out.games = FooRecord

(* The name line before the appid line, after another name line. *)
C1_Witness ==
    /\ Parsed
    /\ arg.lines = <<L_brace, L_brace, L_name2, L_name, L_appid, L_brace>>
    /\ res.out.games = FooRecord

(* C2: a readable manifest never makes the parser fail: a file of three or
   more lines yields one record, its name and id empty when no field line
   gives them, whatever lines with fewer than two fragments it holds. *)
C2_NeverFails ==
    (Parsed /\ Len(arg.lines) >= 3)
    => /\ res.out.status = "ok"
       /\ Len(res.out.games) = 1
       /\ (\A i \in 1..Len(FieldLines(arg.lines)) :
               ~KeyLine(FieldLines(arg.lines)[i], S_name))
          => res.out.games[1][1] = <<>>
       /\ (\A i \in 1..Len(FieldLines(arg.lines)) :
               ~KeyLine(FieldLines(arg.lines)[i], S_appid))
          => res.out.games[1][2] = <<>>

---------------------------------------------------------------------------
(* Properties of the library-set resolver (SpecResolver). *)

PathLines(lines) == SelectSeq(lines, LAMBDA l : Contains(l, S_path))

(* C5: the resolver never fails on a line containing "path", and returns, in
   file order, for each such line its second whitespace-delimited token without
   its first and last character, and nothing for the other lines. *)
C5_SecondTokenOfEveryPathLine ==
    (res.done /\ arg.fn = "resolver")
    => /\ res.out.ok
       /\ Len(res.out.val) = Len(PathLines(arg.lines))
       /\ \A k \in 1..Len(res.out.val) :
              LET tokens == SplitWhitespace(PathLines(arg.lines)[k])
              IN  /\ Len(tokens) >= 2
                  /\ res.out.val[k] = SubSeq(tokens[2], 2, Len(tokens[2]) - 1)

---------------------------------------------------------------------------
(* Properties of the blacklist filter (SpecBlacklist). *)

Filtered == res.done /\ arg.fn = "blacklist"

Emitted == res.out.status = "ok" /\ res.out.games = << <<arg.name, NameId>> >>
Dropped == res.out.status = "ok" /\ res.out.games = <<>>

Rule1(n) == n = S_Redist \/ n = S_SteamVR \/ n = S_ProtonExp
Rule2(n) == EndsWith(n, S_Soundtrack)
Rule4(n) == StartsWith(n, S_Runtime)

(* Rule 3 as claimed: the second whitespace-separated token is a non-zero number. *)
Rule3_whitespace(n) ==
    /\ StartsWith(n, S_Proton)
    /\ Len(SplitWhitespace(n)) >= 2
    /\ ParseF32(SplitWhitespace(n)[2]) = "nonzero"

(* Rule 3 on the text between the first space and the next space (or the end). *)
Rule3_space(n) ==
    /\ StartsWith(n, S_Proton)
    /\ \E a \in 1..Len(n) :
           /\ n[a] = SP
           /\ \A i \in 1..(a - 1) : n[i] # SP
           /\ \E b \in (a + 1)..(Len(n) + 1) :
                  /\ b = Len(n) + 1 \/ n[b] = SP
                  /\ \A i \in (a + 1)..(b - 1) : n[i] # SP
                  /\ ParseF32(SubSeq(n, a + 1, b - 1)) = "nonzero"

(* C6, as claimed: a record is emitted iff its name matches none of the four
   rules, rule 3 reading the second whitespace-separated token. *)
C6_WhitespaceToken ==
    Filtered
    => /\ Emitted \/ Dropped
       /\ Emitted <=> ~(Rule1(arg.name) \/ Rule2(arg.name) \/ Rule3_whitespace(arg.name)
                        \/ Rule4(arg.name))

(* C6, amended: a record is emitted iff its name matches none of the four rules,
   rule 3 reading the text between the first space of the name and the next
   space (empty when two spaces follow "Proton"); "Proton 7.0" is dropped,
   "Proton" and "Proton 0" pass rule 3, "Proton Experimental" is dropped by
   rule 1 only, "Soundtrack Player" is emitted. *)
C6_SpaceToken ==
    Filtered
    => /\ Emitted \/ Dropped
       /\ Emitted <=> ~(Rule1(arg.name) \/ Rule2(arg.name) \/ Rule3_space(arg.name)
                        \/ Rule4(arg.name))
       /\ arg.name = S_Proton \o <<SP, "7", ".", "0">> => Dropped
       /\ arg.name \in {S_Proton, S_Proton \o <<SP, "0">>} => Emitted
       /\ arg.name = S_ProtonExp
          => Dropped /\ ~Rule2(arg.name) /\ ~Rule3_space(arg.name) /\ ~Rule4(arg.name)
       /\ arg.name = S_Soundtrack \o <<SP, "P","l","a","y","e","r">> => Emitted

(* A versioned Proton runtime has been dropped. *)
C6_Witness == Filtered /\ arg.name = S_Proton \o <<SP, "7", ".", "0">> /\ Dropped

---------------------------------------------------------------------------
(* Properties of a run of main (Spec). *)

Listable(dir) == dir \in DOMAIN env.fs.dirs

(* The manifest files of a listable directory, in listing order. *)
ManifestsOf(dir) ==
    LET names == SelectSeq(env.fs.dirs[dir], LAMBDA n : StartsWith(n, S_appmanifest))
    IN  [i \in 1..Len(names) |-> Push(env.platform, dir, names[i])]

ShortManifest(file) ==
    file \in DOMAIN env.fs.files /\ Len(Lines(env.fs.files[file])) < 3

(* The entries of the first n manifests of dir, scanned on their own. *)
EntriesOfFirst(dir, n) ==
    get_games_from_manifest_in_path(
        env.platform,
        [env.fs EXCEPT !.dirs = (dir :> SubSeq(SelectSeq(env.fs.dirs[dir],
                                         LAMBDA f : StartsWith(f, S_appmanifest)), 1, n))],
        dir).games

RECURSIVE CatalogOf(_)
CatalogOf(scs) == IF Len(scs) = 0 THEN <<>> ELSE Head(scs).games \o CatalogOf(Tail(scs))

(* After the i-th scan, the last one so far, the run goes on with the next
   listed library when there is one. *)
RunGoesOn(i) ==
    /\ panic_at # "get_games_from_manifest_in_path"
    /\ games = CatalogOf(scans)
    /\ i <= Len(install_dirs) => pc = "scan_others" /\ todo = i

(* C3: a scan that reads a manifest of fewer than three lines reads no file
   after it, returns exactly the entries of the files before it, and the run
   goes on with the next library root. *)
C3_ShortManifestEndsTheScan ==
    \A i \in 1..Len(scans) :
        \A j \in 2..Len(scans[i].calls) :
            ShortManifest(scans[i].calls[j][2])
            => /\ j = Len(scans[i].calls)
               /\ scans[i].calls[j][2] = ManifestsOf(scans[i].dir)[j - 1]
               /\ scans[i].status = "abandoned"
               /\ scans[i].games = EntriesOfFirst(scans[i].dir, j - 2)
               /\ i = Len(scans) => RunGoesOn(i)

(* A scan gave up at an empty manifest with an entry before and a file after
   it, and the next library was scanned. *)
C3_Witness ==
    \E i \in 1..Len(scans) :
        /\ i < Len(scans)
        /\ scans[i].status = "abandoned"
        /\ Len(scans[i].games) = 1
        /\ Len(ManifestsOf(scans[i].dir)) > Len(scans[i].calls) - 1
        /\ scans[i + 1].games # <<>>

(* C4: the scan of a directory that cannot be listed returns no entry and does
   not fail the run: the entries of the libraries scanned before are kept and
   the libraries after it are scanned. *)
C4_UnlistableLibraryIsEmpty ==
    \A i \in 1..Len(scans) :
        ~Listable(scans[i].dir)
        => /\ scans[i].status = "ok"
           /\ scans[i].games = <<>>
           /\ scans[i].calls = <<Call("read_dir", scans[i].dir)>>
           /\ i = Len(scans) => RunGoesOn(i)

(* A stale library was scanned between two libraries that have entries. *)
C4_Witness ==
    \E i \in 2..(Len(scans) - 1) :
        /\ ~Listable(scans[i].dir)
        /\ scans[i - 1].games # <<>>
        /\ scans[i + 1].games # <<>>
        /\ games = scans[i - 1].games \o scans[i + 1].games

(* main has left the loop over install_dirs (line 362). *)
CatalogBuilt == scans # <<>> /\ (pc \in {"run", "done"} \/ panic_at \in {"choose", "run"})

(* C7: when the default library holds exactly the manifests of "Half-Life 2"
   (id 220) and "Proton 8.0" (id 0) and every path listed in the registry file
   is the default library itself or a library without manifests, the catalog
   holds exactly one entry, ("Half-Life 2", "220"). *)
C7_ExactlyOneEntry ==
    (/\ CatalogBuilt
     /\ Len(ManifestsOf(path)) = 2
     /\ \A k \in 1..2 : ManifestsOf(path)[k] \in DOMAIN env.fs.files
     /\ {env.fs.files[ManifestsOf(path)[k]] : k \in 1..2}
            = {ManifestText.hl2, ManifestText.proton8}
     /\ \A k \in 1..Len(install_dirs) :
            LibDir(env.platform, install_dirs[k]) = path
            \/ ~Listable(LibDir(env.platform, install_dirs[k])))
    => games = << <<N_HalfLife2, <<"2","2","0">>>> >>

DetectionCalls == {"which", "spawn", "registry"}

(* C8: once detect_steam has returned NotFound, the run only emits the
   not-found message and ends: no panic, no home or filesystem call, no scan,
   no pick, no launch. *)
C8_NotFoundTouchesNothing ==
    steam_type = NotFound
    => /\ pc \in {"detected", "done"}
       /\ panic_at = ""
       /\ \A k \in 1..Len(trace) : trace[k][1] \in DetectionCalls
       /\ path = <<>> /\ install_dirs = <<>> /\ scans = <<>> /\ games = <<>>
       /\ chosen = NoGame /\ launched = <<>> /\ stdout = <<>>
       /\ pc = "done" <=> (stderr # <<>> /\ stderr[Len(stderr)] = S_NotFoundMessage)

C8_Witness == steam_type = NotFound /\ pc = "done"

(* C9: neither detect_steam nor, with a home directory, the resolution of the
   default root ever panics. *)
C9_DetectionNeverCrashes ==
    /\ panic_at # "detect_steam"
    /\ ~(panic_at = "default_path" /\ env.home.ok)

LaunchCalls == SelectSeq(trace, LAMBDA c : c[1] = "launch")

(* C10: at most one launch per run, and only after the client was detected,
   libraryfolders.vdf was read, every library was scanned without a panic and
   the catalog is not empty, with dry-run unset; the URI is
   steam://rungameid/<id> for the id of an entry of the final catalog. *)
C10_LaunchOnlyAfterAll ==
    /\ Len(LaunchCalls) <= 1
    /\ Len(launched) <= Len(LaunchCalls)
    /\ \A k \in 1..Len(launched) : launched[k].uri = LaunchCalls[k][2]
    /\ LaunchCalls # <<>>
       => /\ steam_type \notin {Unset, NotFound}
          /\ Push(env.platform, path, S_libraryfolders) \in DOMAIN env.fs.files
          /\ \E k \in 1..Len(trace) :
                 trace[k] = Call("read_to_string",
                                 Push(env.platform, path, S_libraryfolders))
          /\ Len(scans) = 1 + Len(install_dirs)
          /\ \A i \in 1..Len(scans) : scans[i].status # "panic"
          /\ games = CatalogOf(scans)
          /\ games # <<>>
          /\ ~env.dry_run
          /\ \E i \in 1..Len(games) : LaunchCalls[1][2] = S_rungame \o games[i][2]
    /\ (env.dry_run \/ (CatalogBuilt /\ games = <<>>)) => LaunchCalls = <<>>

(* A game of a two-library catalog was launched. *)
C10_Witness == launched # <<>> /\ Len(install_dirs) >= 1 /\ Len(games) >= 2

====
